---- MODULE Spec2Model ----
(***************************************************************************)
(* A model of the recursive link crawler of src/link_crawler.py.           *)
(*                                                                         *)
(* Strings are sequences of one-character strings, so that the string      *)
(* operations of the code (prefix test, slicing, concatenation, substring  *)
(* test, regular-expression match, URL splitting and joining) are computed *)
(* character by character as the code and the standard library compute     *)
(* them.  The alphabet of the modelled inputs is lower-case ASCII, digits  *)
(* and punctuation; none of the inputs holds upper-case letters, blanks,   *)
(* control characters or ';', so str.lower(), the stripping of blanks and  *)
(* the splitting of ;params in urllib leave them as they are.              *)
(***************************************************************************)
EXTENDS Integers, Sequences, FiniteSets, TLC

----------------------------------------------------------------------------
(* Characters and elementary string operations.                            *)

LowerCase ==
    {"a","b","c","d","e","f","g","h","i","j","k","l","m",
     "n","o","p","q","r","s","t","u","v","w","x","y","z"}

UpperCase ==
    {"A","B","C","D","E","F","G","H","I","J","K","L","M",
     "N","O","P","Q","R","S","T","U","V","W","X","Y","Z"}

Digits ==
    {"0","1","2","3","4","5","6","7","8","9"}

Letters ==
    LowerCase \cup UpperCase

\* urllib.parse.scheme_chars
scheme_chars ==
    Letters \cup Digits \cup {"+", "-", "."}

\* s[:n]
Take(s, n) ==
    IF n >= Len(s) THEN s ELSE SubSeq(s, 1, n)

\* s[n:]
Drop(s, n) ==
    IF n >= Len(s) THEN <<>> ELSE SubSeq(s, n + 1, Len(s))

\* 1-based position of the first character of s that is in C, 0 when none
\* (str.find for a single character, shifted by one).
Find(s, C) ==
    IF \E i \in 1..Len(s) : s[i] \in C
    THEN CHOOSE i \in 1..Len(s) : s[i] \in C /\ \A j \in 1..(i - 1) : s[j] \notin C
    ELSE 0

\* s.startswith(p)
StartsWith(s, p) ==
    Len(s) >= Len(p) /\ SubSeq(s, 1, Len(p)) = p

\* d in s (Python's substring test; the empty string is in every string)
Contains(s, d) ==
    \E i \in 0..(Len(s) - Len(d)) : SubSeq(s, i + 1, i + Len(d)) = d

AllIn(s, C) ==
    \A i \in 1..Len(s) : s[i] \in C

\* s.split(c)
RECURSIVE Split(_, _)
RECURSIVE SplitAt(_, _, _)
SplitAt(s, c, i) ==
    IF i = 0 THEN <<s>> ELSE <<Take(s, i - 1)>> \o Split(Drop(s, i), c)

Split(s, c) ==
    SplitAt(s, c, Find(s, {c}))

\* c.join(parts)
RECURSIVE Join(_, _)
Join(parts, c) ==
    IF Len(parts) = 0 THEN <<>>
    ELSE IF Len(parts) = 1 THEN parts[1]
    ELSE parts[1] \o <<c>> \o Join(Tail(parts), c)

----------------------------------------------------------------------------
(* urllib.parse, as far as the crawler uses it.  Each stage of urlsplit is *)
(* an operator that hands what it has split off to the next stage.         *)

S_http ==
    <<"h","t","t","p">>

S_https ==
    <<"h","t","t","p","s">>

S_file ==
    <<"f","i","l","e">>

S_ftp ==
    <<"f","t","p">>

\* urllib.parse.uses_relative and uses_netloc, restricted to the schemes of
\* the modelled inputs ('' is the empty scheme); mailto, javascript and tel
\* are in neither list.
uses_relative ==
    {<<>>, S_http, S_https, S_file, S_ftp}

uses_netloc ==
    {<<>>, S_http, S_https, S_file, S_ftp}

\* if '?' in url: url, query = url.split('?', 1)
SplitQuery(scheme, netloc, url, fragment, q) ==
    [scheme   |-> scheme,
     netloc   |-> netloc,
     path     |-> IF q = 0 THEN url ELSE Take(url, q - 1),
     query    |-> IF q = 0 THEN <<>> ELSE Drop(url, q),
     fragment |-> fragment]

\* if '#' in url: url, fragment = url.split('#', 1)
SplitFragment(scheme, netloc, url, f) ==
    IF f = 0
    THEN SplitQuery(scheme, netloc, url, <<>>, Find(url, {"?"}))
    ELSE SplitQuery(scheme, netloc, Take(url, f - 1), Drop(url, f),
                    Find(Take(url, f - 1), {"?"}))

\* _splitnetloc(url, 2): the netloc ends at the first of / ? #
SplitNetlocAt(scheme, url, d) ==
    IF d = 0
    THEN SplitFragment(scheme, url, <<>>, 0)
    ELSE SplitFragment(scheme, Take(url, d - 1), Drop(url, d - 1),
                       Find(Drop(url, d - 1), {"#"}))

\* if url[:2] == '//': netloc, url = _splitnetloc(url, 2)
SplitNetloc(scheme, url) ==
    IF StartsWith(url, <<"/", "/">>)
    THEN SplitNetlocAt(scheme, Drop(url, 2), Find(Drop(url, 2), {"/", "?", "#"}))
    ELSE SplitFragment(scheme, <<>>, url, Find(url, {"#"}))

\* i = url.find(':'); a scheme is split off when the characters before the
\* colon are scheme characters and the first is a letter
SplitScheme(url, default, i) ==
    IF i > 1 /\ url[1] \in Letters /\ AllIn(Take(url, i - 1), scheme_chars)
    THEN SplitNetloc(Take(url, i - 1), Drop(url, i))
    ELSE SplitNetloc(default, url)

\* urlparse(url, scheme): scheme is the default when url carries none.
urlparse2(url, default) ==
    SplitScheme(url, default, Find(url, {":"}))

urlparse(url) ==
    urlparse2(url, <<>>)

\* urlsplit raises ValueError("Invalid IPv6 URL") when the netloc holds one
\* bracket without the other.
BracketMismatch(netloc) ==
    \/ (Find(netloc, {"["}) # 0 /\ Find(netloc, {"]"}) = 0)
    \/ (Find(netloc, {"]"}) # 0 /\ Find(netloc, {"["}) = 0)

urlparse_raises(url) ==
    BracketMismatch(urlparse(url).netloc)

\* urlunsplit: '//' + netloc + path when there is a netloc, or the scheme
\* uses one and the path does not begin with '//'
AddNetloc(scheme, netloc, url) ==
    IF \/ netloc # <<>>
       \/ (scheme # <<>> /\ scheme \in uses_netloc /\ ~StartsWith(url, <<"/", "/">>))
    THEN <<"/", "/">> \o netloc
           \o (IF url # <<>> /\ url[1] # "/" THEN <<"/">> \o url ELSE url)
    ELSE url

AddScheme(scheme, url) ==
    IF scheme # <<>> THEN scheme \o <<":">> \o url ELSE url

AddQuery(url, query) ==
    IF query # <<>> THEN url \o <<"?">> \o query ELSE url

AddFragment(url, fragment) ==
    IF fragment # <<>> THEN url \o <<"#">> \o fragment ELSE url

urlunparse(p) ==
    AddFragment(AddQuery(AddScheme(p.scheme, AddNetloc(p.scheme, p.netloc, p.path)),
                         p.query),
                p.fragment)

\* if base_parts[-1] != '': del base_parts[-1]
BaseParts(parts) ==
    IF parts[Len(parts)] # <<>> THEN SubSeq(parts, 1, Len(parts) - 1) ELSE parts

\* segments[1:-1] = filter(None, segments[1:-1])
FilterMiddle(segs) ==
    IF Len(segs) <= 2 THEN segs
    ELSE <<segs[1]>>
           \o SelectSeq(SubSeq(segs, 2, Len(segs) - 1), LAMBDA x : x # <<>>)
           \o <<segs[Len(segs)]>>

\* the segments of the joined path, before '.' and '..' are resolved
Segments(bpath, path) ==
    IF path[1] = "/" THEN Split(path, "/")
    ELSE FilterMiddle(BaseParts(Split(bpath, "/")) \o Split(path, "/"))

\* the loop of urljoin over the segments: '..' pops, '.' is skipped
RECURSIVE ResolveSegments(_, _)
ResolveSegments(segs, acc) ==
    IF segs = <<>> THEN acc
    ELSE IF Head(segs) = <<".", ".">>
    THEN ResolveSegments(Tail(segs),
                         IF acc = <<>> THEN acc ELSE SubSeq(acc, 1, Len(acc) - 1))
    ELSE IF Head(segs) = <<".">>
    THEN ResolveSegments(Tail(segs), acc)
    ELSE ResolveSegments(Tail(segs), Append(acc, Head(segs)))

\* a trailing '.' or '..' leaves a trailing '/'
Resolved(segs) ==
    IF segs[Len(segs)] \in {<<".">>, <<".", ".">>}
    THEN Append(ResolveSegments(segs, <<>>), <<>>)
    ELSE ResolveSegments(segs, <<>>)

\* '/'.join(resolved_path) or '/'
OrSlash(path) ==
    IF path = <<>> THEN <<"/">> ELSE path

\* urljoin once base and url are parsed and netloc is settled
JoinPaths(b, u, netloc) ==
    IF u.path = <<>>
    THEN urlunparse([u EXCEPT !.netloc = netloc, !.path = b.path,
                              !.query = IF u.query = <<>> THEN b.query ELSE u.query])
    ELSE urlunparse([u EXCEPT !.netloc = netloc,
                              !.path = OrSlash(Join(Resolved(Segments(b.path, u.path)),
                                                    "/"))])

JoinParsed(url, b, u) ==
    IF u.scheme # b.scheme \/ u.scheme \notin uses_relative THEN url
    ELSE IF u.scheme \in uses_netloc /\ u.netloc # <<>> THEN urlunparse(u)
    ELSE JoinPaths(b, u, IF u.scheme \in uses_netloc THEN b.netloc ELSE u.netloc)

\* urljoin(base, url), for a base and a url on which urlparse does not raise
urljoin(base, url) ==
    IF base = <<>> THEN url
    ELSE IF url = <<>> THEN base
    ELSE JoinParsed(url, urlparse(base), urlparse2(url, urlparse(base).scheme))

----------------------------------------------------------------------------
(* The inputs: the seed, and the hrefs the pages of the crawled site hold. *)

SeedUrl ==
    <<"h","t","t","p",":","/","/","e",".","c","o","/">>

HrefRoot ==
    <<"/">>

HrefA ==
    <<"/","a">>

HrefAQuery ==
    <<"/","a","?","q">>

HrefAFrag ==
    <<"/","a","#","f">>

HrefFrag ==
    <<"#","f">>

HrefB ==
    <<"/","b">>

HrefChain ==
    <<"x","/">>

HrefOther ==
    <<"h","t","t","p",":","/","/","o",".","c","o","/">>

HrefSuperHost ==
    <<"h","t","t","p",":","/","/","x","e",".","c","o","/">>

HrefHostInPath ==
    <<"h","t","t","p",":","/","/","o",".","c","o","/","e",".","c","o">>

HrefMail ==
    <<"m","a","i","l","t","o",":","t","@","e",".","c","o">>

HrefMailBad ==
    <<"m","a","i","l","t","o",":","b","a","d">>

HrefMailSubject ==
    <<"m","a","i","l","t","o",":","t","@","e",".","c","o","?","s">>

HrefJs ==
    <<"j","a","v","a","s","c","r","i","p","t",":","v","o","i","d","(","0",")">>

HrefJsEmpty ==
    <<"j","a","v","a","s","c","r","i","p","t",":">>

HrefFile ==
    <<"f","i","l","e",":","/","/","/","e">>

HrefBracket ==
    <<"h","t","t","p",":","/","/","[">>

HrefEmpty ==
    <<>>

\* Python's None: a_tag.attrs.get("href") of an anchor without href, and the
\* result of is_mail_link for a link that is no mail link.  No string of
\* characters equals it.
None ==
    <<"None">>

\* truthiness of a str-or-None value (if email:)
Truthy(v) ==
    v # None /\ v # <<>>

\* a seed without scheme and host, and one with a scheme but without host
SeedNoScheme ==
    <<"e",".","c","o">>

SeedNoHost ==
    <<"h","t","t","p",":","/","/","/","e">>

\* the seed and the hrefs of the end-to-end scenario
SeedExample ==
    <<"h","t","t","p","s",":","/","/","e","x","a","m","p","l","e",".","c","o","m">>

HrefAbout ==
    <<"/","a","b","o","u","t">>

HrefExternal ==
    <<"h","t","t","p","s",":","/","/","e","x","t","e","r","n","a","l",".","c","o","m">>

HrefMailTest ==
    <<"m","a","i","l","t","o",":","t","e","s","t","@","e","x","a","m","p","l","e",".","c","o","m">>

Seeds ==
    {SeedUrl, SeedNoScheme, SeedNoHost, SeedExample}

\* The bodies a fetch can return, each the sequence of the href attributes of
\* its anchors in document order.
PageScenario ==
    <<HrefA, HrefOther, HrefMail>>

PageBack ==
    <<HrefFrag, HrefRoot>>

PageQuery ==
    <<HrefAQuery, HrefAFrag, HrefB>>

PageChain ==
    <<HrefChain>>

PageHosts ==
    <<HrefSuperHost, HrefHostInPath>>

PageOdd ==
    <<HrefMailBad, HrefMailSubject, HrefJs, HrefJsEmpty, HrefFile, HrefEmpty, None>>

PageBroken ==
    <<HrefB, HrefBracket, HrefA>>

PageEmpty ==
    <<>>

PageExample ==
    <<HrefAbout, HrefExternal, HrefMailTest>>

\* the pages of a site whose seed links to a page of its own host and to a
\* page of another host, both of which link to the root of the other host
PageDriftSeed ==
    <<HrefA, HrefHostInPath>>

PageDriftLeaf ==
    <<HrefOther>>

Pages ==
    {PageScenario, PageBack, PageQuery, PageHosts, PageOdd, PageBroken, PageEmpty}

\* "open": every fetch may fail or return any of the pages, with any status.
\* "chain": every fetch succeeds and every page links only to a new page one
\* level below it, without end.
\* "example": the seed page is PageExample, every other page has no anchor.
\* "drift": the seed page is PageDriftSeed, the pages it links to are
\* PageDriftLeaf, every other page has no anchor.
Sites ==
    {"open", "chain", "example", "drift"}

\* what requests.get returned: a 2xx HTML page, a 4xx/5xx response, or a
\* response that is not HTML; requests.get raises for none of them
ResponseKinds ==
    {"ok", "http_error", "non_html"}

Served(s) ==
    IF s = "chain" THEN {PageChain} ELSE Pages

KindsServed(s) ==
    IF s = "open" THEN ResponseKinds ELSE {"ok"}

\* the pages the site can answer a fetch of url with
ServedAt(s, url) ==
    CASE s = "example" ->
           (IF url = SeedExample THEN {PageExample} ELSE {PageEmpty})
      [] s = "drift" ->
           (IF url = SeedUrl THEN {PageDriftSeed}
            ELSE IF url \in {SeedUrl \o <<"a">>, HrefHostInPath} THEN {PageDriftLeaf}
            ELSE {PageEmpty})
      [] OTHER -> Served(s)

MaxBudget ==
    2

\* the budget of the end-to-end scenario, which the sites with fixed pages
\* ("example", "drift") never reach
ScenarioBudget ==
    5

\* the crawls crawl() is called for in one process
MaxSessions ==
    2

\* the seeds and budgets explored on each site
SeedsOf(s) ==
    CASE s = "open"    -> {SeedUrl, SeedNoScheme, SeedNoHost}
      [] s = "chain"   -> {SeedUrl}
      [] s = "example" -> {SeedExample}
      [] s = "drift"   -> {SeedUrl}

BudgetsOf(s) ==
    IF s \in {"example", "drift"} THEN {ScenarioBudget} ELSE 0..MaxBudget

\* the sites on which a second crawl in the same process is explored
Reentered ==
    {"chain", "example"}

----------------------------------------------------------------------------
(* The functions of link_crawler.py.                                       *)

is_valid(url) ==
    urlparse(url).netloc # <<>> /\ urlparse(url).scheme # <<>>

MailtoPrefix ==
    <<"m","a","i","l","t","o",":">>

LocalChars ==
    Letters \cup Digits \cup {".", "_", "%", "+", "-"}

DomainChars ==
    Letters \cup Digits \cup {".", "-"}

\* re.match(r'^[a-zA-Z0-9._%+-]+@[a-zA-Z0-9.-]+\.[a-zA-Z]{2,}$', email)
EmailMatch(email) ==
    \E i \in 2..Len(email) : \E j \in (i + 2)..Len(email) :
        /\ email[i] = "@"
        /\ email[j] = "."
        /\ AllIn(SubSeq(email, 1, i - 1), LocalChars)
        /\ AllIn(SubSeq(email, i + 1, j - 1), DomainChars)
        /\ Len(email) - j >= 2
        /\ AllIn(SubSeq(email, j + 1, Len(email)), Letters)

is_mail_link(href) ==
    IF StartsWith(href, MailtoPrefix) /\ EmailMatch(Drop(href, 7))
    THEN Drop(href, 7)
    ELSE None

\* line 77: href = parsed_href.scheme + "://" + parsed_href.netloc + parsed_href.path
Rebuild(parsed_href) ==
    parsed_href.scheme \o <<":", "/", "/">> \o parsed_href.netloc \o parsed_href.path

\* Normalize without the urljoin of line 75: the href is not resolved against
\* the url of the page
NormalizeNoJoin(url, href) ==
    Rebuild(urlparse(href))

\* lines 75-77: the href resolved against the page and rebuilt from scheme,
\* netloc and path, which drops the query string and the fragment
Normalize(url, href) ==
    Rebuild(urlparse(urljoin(url, href)))

\* lines 75-79: urljoin (which parses the page's url and the href), the
\* urlparse of line 76 and the one in is_valid raise ValueError on a netloc
\* with an unmatched bracket; none of them is inside the try
JoinedRaises(joined) ==
    urlparse_raises(joined) \/ urlparse_raises(Rebuild(urlparse(joined)))

HrefRaises(url, href) ==
    \/ urlparse_raises(url)
    \/ urlparse_raises(href)
    \/ JoinedRaises(urljoin(url, href))

----------------------------------------------------------------------------
(* The state.                                                              *)

VARIABLES
    seed,                \* the url argument of the run
    max_urls,            \* the --max-urls argument
    site,                \* the kind of site being crawled
    status,              \* "idle", "running", "done" (crawl returned, results
                         \* written) or "crashed" (an exception left crawl)
    internal_urls,       \* the module-level sets and counter, lines 23-27
    external_urls,
    email_addresses,
    total_urls_visited,
    stack,               \* the frames of the nested crawl() calls, innermost last
    fetchLog,            \* the urls requests.get was called with, in order
    failed,              \* the urls whose fetch raised
    offerLog,            \* the hrefs added to a urls set (line 89), in order
    refs,                \* the (href, normalized target) pairs that reached line 77
    session              \* the number of crawl(seed) calls made in the process

vars ==
    <<seed, max_urls, site, status, internal_urls, external_urls, email_addresses,
      total_urls_visited, stack, fetchLog, failed, offerLog, refs, session>>

results ==
    <<internal_urls, external_urls, email_addresses>>

\* what no step of a crawl changes: the arguments, the site, and the number
\* of the crawl in the process
config ==
    <<seed, max_urls, site, session>>

Top ==
    stack[Len(stack)]

SetTop(f) ==
    [stack EXCEPT ![Len(stack)] = f]

Pop ==
    SubSeq(stack, 1, Len(stack) - 1)

Range(s) ==
    {s[i] : i \in 1..Len(s)}

Count(s, x) ==
    Cardinality({i \in 1..Len(s) : s[i] = x})

\* The discovered links still waiting to be crawled: the urls sets of the
\* frames on the stack (the links sets the for loops of crawl iterate over).
Frontier ==
    UNION {stack[i].urls : i \in 1..Len(stack)}

\* A frame of crawl(url): pc is "fetch" before requests.get, "anchors" in the
\* loop over soup.find_all("a"), "loop" in the for loop of crawl.
\* domain_name is set at line 52, before the fetch.
Frame(url) ==
    [url |-> url, pc |-> "fetch", soup |-> <<>>, urls |-> {},
     domain_name |-> urlparse(url).netloc, response |-> "none"]

Init ==
    /\ site \in Sites
    /\ seed \in Seeds \cap SeedsOf(site)
    /\ max_urls \in BudgetsOf(site)
    /\ session = 1
    /\ status = "idle"
    /\ internal_urls = {}
    /\ external_urls = {}
    /\ email_addresses = {}
    /\ total_urls_visited = 0
    /\ stack = <<>>
    /\ fetchLog = <<>>
    /\ failed = {}
    /\ offerLog = <<>>
    /\ refs = {}

----------------------------------------------------------------------------
(* The steps of the program.                                               *)

\* line 116 and lines 97-100: main calls crawl(url), which counts the visit
\* and enters get_all_website_links
Main ==
    /\ status = "idle"
    /\ status' = "running"
    /\ total_urls_visited' = total_urls_visited + 1
    /\ stack' = <<Frame(seed)>>
    /\ UNCHANGED <<config, results, fetchLog, failed, offerLog, refs>>

\* requests answers only http and https urls with a host; for any other url
\* requests.get raises MissingSchema, InvalidSchema or InvalidURL
Fetchable(url) ==
    urlparse(url).scheme \in {S_http, S_https} /\ urlparse(url).netloc # <<>>

\* FetchRaise without the except clause of lines 56-58: the exception leaves
\* get_all_website_links and every crawl call above it
FetchRaiseUncaught ==
    /\ status = "running" /\ stack # <<>> /\ Top.pc = "fetch"
    /\ site = "open" \/ ~Fetchable(Top.url)
    /\ fetchLog' = Append(fetchLog, Top.url)
    /\ failed' = failed \cup {Top.url}
    /\ status' = "crashed"
    /\ stack' = <<>>
    /\ UNCHANGED <<config, results, total_urls_visited, offerLog, refs>>

\* FetchRaise of a crawler that counts a visit only when its fetch succeeds:
\* the failed attempt is taken off the counter again
FetchRaiseUncounted ==
    /\ status = "running" /\ stack # <<>> /\ Top.pc = "fetch"
    /\ site = "open" \/ ~Fetchable(Top.url)
    /\ fetchLog' = Append(fetchLog, Top.url)
    /\ failed' = failed \cup {Top.url}
    /\ stack' = SetTop([Top EXCEPT !.pc = "loop"])
    /\ total_urls_visited' = total_urls_visited - 1
    /\ UNCHANGED <<config, status, results, offerLog, refs>>

\* FetchRaise of a crawler whose except clause records the url it could not
\* fetch among the internal links
FetchRaiseRecorded ==
    /\ status = "running" /\ stack # <<>> /\ Top.pc = "fetch"
    /\ site = "open" \/ ~Fetchable(Top.url)
    /\ fetchLog' = Append(fetchLog, Top.url)
    /\ failed' = failed \cup {Top.url}
    /\ stack' = SetTop([Top EXCEPT !.pc = "loop"])
    /\ internal_urls' = internal_urls \cup {Top.url}
    /\ UNCHANGED <<config, status, external_urls, email_addresses,
                   total_urls_visited, offerLog, refs>>

\* lines 53-58: requests.get or BeautifulSoup raised; the error is printed and
\* the empty urls set returned to crawl, whose for loop has nothing to do
FetchRaise ==
    /\ status = "running" /\ stack # <<>> /\ Top.pc = "fetch"
    /\ site = "open" \/ ~Fetchable(Top.url)
    /\ fetchLog' = Append(fetchLog, Top.url)
    /\ failed' = failed \cup {Top.url}
    /\ stack' = SetTop([Top EXCEPT !.pc = "loop"])
    /\ UNCHANGED <<config, status, results, total_urls_visited, offerLog, refs>>

\* lines 54-55: requests.get returned a response, of whatever status and
\* content type, and BeautifulSoup parsed its body
FetchResponse ==
    /\ status = "running" /\ stack # <<>> /\ Top.pc = "fetch"
    /\ Fetchable(Top.url)
    /\ \E kind \in KindsServed(site) : \E page \in ServedAt(site, Top.url) :
          stack' = SetTop([Top EXCEPT !.pc = "anchors", !.soup = page,
                                      !.response = kind])
    /\ fetchLog' = Append(fetchLog, Top.url)
    /\ UNCHANGED <<config, status, results, total_urls_visited, failed, offerLog, refs>>

\* lines 79-90: what becomes of a normalized href on a page of domain_name
ClassifyTarget(h, domain_name) ==
    IF ~is_valid(h) THEN "invalid"
    ELSE IF h \in internal_urls THEN "known"
    ELSE IF ~Contains(h, domain_name) THEN "external"
    ELSE "internal"

\* lines 62-90: what the body of the loop over the anchors does with one href
\* of the page url
Classify(url, domain_name, href) ==
    IF href = <<>> \/ href = None THEN "skip"
    ELSE IF Truthy(is_mail_link(href)) THEN "mail"
    ELSE IF HrefRaises(url, href) THEN "raise"
    ELSE ClassifyTarget(Normalize(url, href), domain_name)

\* AnchorStep without line 90: a new internal link is returned to crawl but
\* not recorded in internal_urls
AnchorStepUnrecorded(href, rest, c, h) ==
    CASE c = "skip" ->
           /\ stack' = SetTop(rest)
           /\ UNCHANGED <<status, results, offerLog, refs>>
      [] c = "mail" ->
           /\ email_addresses' = email_addresses \cup {is_mail_link(href)}
           /\ stack' = SetTop(rest)
           /\ UNCHANGED <<status, internal_urls, external_urls, offerLog, refs>>
      [] c = "raise" ->
           /\ status' = "crashed"
           /\ stack' = <<>>
           /\ UNCHANGED <<results, offerLog, refs>>
      [] c \in {"invalid", "known"} ->
           /\ stack' = SetTop(rest)
           /\ refs' = refs \cup {[href |-> href, target |-> h]}
           /\ UNCHANGED <<status, results, offerLog>>
      [] c = "external" ->
           /\ external_urls' = external_urls \cup {h}
           /\ stack' = SetTop(rest)
           /\ refs' = refs \cup {[href |-> href, target |-> h]}
           /\ UNCHANGED <<status, internal_urls, email_addresses, offerLog>>
      [] c = "internal" ->
           /\ stack' = SetTop([rest EXCEPT !.urls = @ \cup {h}])
           /\ offerLog' = Append(offerLog, h)
           /\ refs' = refs \cup {[href |-> href, target |-> h]}
           /\ UNCHANGED <<status, results>>

\* the effect of one iteration: rest is the frame with the anchor consumed,
\* c the class of the href, h its normalized form
AnchorStep(href, rest, c, h) ==
    CASE c = "skip" ->
           /\ stack' = SetTop(rest)
           /\ UNCHANGED <<status, results, offerLog, refs>>
      [] c = "mail" ->
           /\ email_addresses' = email_addresses \cup {is_mail_link(href)}
           /\ stack' = SetTop(rest)
           /\ UNCHANGED <<status, internal_urls, external_urls, offerLog, refs>>
      [] c = "raise" ->
           /\ status' = "crashed"
           /\ stack' = <<>>
           /\ UNCHANGED <<results, offerLog, refs>>
      [] c \in {"invalid", "known"} ->
           /\ stack' = SetTop(rest)
           /\ refs' = refs \cup {[href |-> href, target |-> h]}
           /\ UNCHANGED <<status, results, offerLog>>
      [] c = "external" ->
           /\ external_urls' = external_urls \cup {h}
           /\ stack' = SetTop(rest)
           /\ refs' = refs \cup {[href |-> href, target |-> h]}
           /\ UNCHANGED <<status, internal_urls, email_addresses, offerLog>>
      [] c = "internal" ->
           /\ internal_urls' = internal_urls \cup {h}
           /\ stack' = SetTop([rest EXCEPT !.urls = @ \cup {h}])
           /\ offerLog' = Append(offerLog, h)
           /\ refs' = refs \cup {[href |-> href, target |-> h]}
           /\ UNCHANGED <<status, external_urls, email_addresses>>

\* lines 61-90: one iteration of the loop over the anchors of the page
Anchor ==
    /\ status = "running" /\ stack # <<>> /\ Top.pc = "anchors" /\ Top.soup # <<>>
    /\ AnchorStep(Head(Top.soup),
                  [Top EXCEPT !.soup = Tail(Top.soup)],
                  Classify(Top.url, Top.domain_name, Head(Top.soup)),
                  Normalize(Top.url, Head(Top.soup)))
    /\ UNCHANGED <<config, total_urls_visited, fetchLog, failed>>

\* line 91: the anchors are exhausted; urls is returned and becomes the links
\* of crawl (line 100)
ReturnLinks ==
    /\ status = "running" /\ stack # <<>> /\ Top.pc = "anchors" /\ Top.soup = <<>>
    /\ stack' = SetTop([Top EXCEPT !.pc = "loop"])
    /\ UNCHANGED <<config, status, results, total_urls_visited, fetchLog, failed,
                   offerLog, refs>>

\* Recurse without the test of lines 102-103: crawl(link) is called for a
\* link whatever the counter
RecurseUnchecked ==
    /\ status = "running" /\ stack # <<>> /\ Top.pc = "loop"
    /\ \E link \in Top.urls :
          stack' = Append(SetTop([Top EXCEPT !.urls = @ \ {link}]), Frame(link))
    /\ total_urls_visited' = total_urls_visited + 1
    /\ UNCHANGED <<config, status, results, fetchLog, failed, offerLog, refs>>

\* lines 101-104 and 97-100: the for loop takes a link (a set is iterated in
\* no particular order), the counter does not exceed max_urls, crawl(link)
\* is called and counts the visit
Recurse ==
    /\ status = "running" /\ stack # <<>> /\ Top.pc = "loop"
    /\ ~(total_urls_visited > max_urls)
    /\ \E link \in Top.urls :
          stack' = Append(SetTop([Top EXCEPT !.urls = @ \ {link}]), Frame(link))
    /\ total_urls_visited' = total_urls_visited + 1
    /\ UNCHANGED <<config, status, results, fetchLog, failed, offerLog, refs>>

\* Break with the test of line 102 written 'total_urls_visited >= max_urls':
\* the loop is left as soon as the counter reaches max_urls
BreakAtBudget ==
    /\ status = "running" /\ stack # <<>> /\ Top.pc = "loop"
    /\ Top.urls # {}
    /\ total_urls_visited >= max_urls
    /\ stack' = Pop
    /\ UNCHANGED <<config, status, results, total_urls_visited, fetchLog, failed,
                   offerLog, refs>>

\* lines 102-103: the counter exceeds max_urls; break leaves the loop and
\* crawl returns without crawling the links that remain
Break ==
    /\ status = "running" /\ stack # <<>> /\ Top.pc = "loop"
    /\ Top.urls # {}
    /\ total_urls_visited > max_urls
    /\ stack' = Pop
    /\ UNCHANGED <<config, status, results, total_urls_visited, fetchLog, failed,
                   offerLog, refs>>

\* line 101: no link is left; crawl returns
Return ==
    /\ status = "running" /\ stack # <<>> /\ Top.pc = "loop"
    /\ Top.urls = {}
    /\ stack' = Pop
    /\ UNCHANGED <<config, status, results, total_urls_visited, fetchLog, failed,
                   offerLog, refs>>

\* lines 118-138: crawl(url) returned to main; the summary is printed and the
\* three result files are written
Finish ==
    /\ status = "running" /\ stack = <<>>
    /\ status' = "done"
    /\ UNCHANGED <<config, results, total_urls_visited, stack, fetchLog, failed,
                   offerLog, refs>>

Next ==
    \/ Main
    \/ FetchRaise
    \/ FetchResponse
    \/ Anchor
    \/ ReturnLinks
    \/ Recurse
    \/ Break
    \/ Return
    \/ Finish

Spec ==
    Init /\ [][Next]_vars

\* lines 93-100 with lines 23-27: crawl(url) called once more in the process
\* that imported the module.  The sets and the counter are module-level and
\* crawl assigns none of them on entry: it only adds 1 to the counter.
CrawlAgain ==
    /\ status = "done"
    /\ site \in Reentered
    /\ session < MaxSessions
    /\ session' = session + 1
    /\ status' = "running"
    /\ total_urls_visited' = total_urls_visited + 1
    /\ stack' = <<Frame(seed)>>
    /\ UNCHANGED <<seed, max_urls, site, results, fetchLog, failed, offerLog, refs>>

NextSessions ==
    \/ Next
    \/ CrawlAgain

SpecSessions ==
    Init /\ [][NextSessions]_vars

\* the process has ended: main ran to its last line, or an exception left it
Exited ==
    status \in {"done", "crashed"}

\* the exit code of the ended process: 0 when main runs to its last line,
\* 1 when the interpreter ends on an uncaught exception.  The program calls
\* sys.exit nowhere, and argparse (exit code 2) does not look at the form of
\* the url.
exit_code ==
    IF status = "done" THEN 0 ELSE 1

----------------------------------------------------------------------------
(* The claims.                                                             *)

SeedHost ==
    urlparse(seed).netloc

HostOf(url) ==
    urlparse(url).netloc

\* the crawler is in the loop over the anchors and href is the next one
AtAnchor ==
    status = "running" /\ stack # <<>> /\ Top.pc = "anchors" /\ Top.soup # <<>>

NextHref ==
    Head(Top.soup)

\* C1: in one crawl session no url is fetched more than once.
C1_NoDuplicateFetch ==
    \A i, j \in 1..Len(fetchLog) : i # j => fetchLog[i] # fetchLog[j]

\* C2: in every reachable state the number of visits does not exceed the
\* budget max_urls.
C2_BudgetRespected ==
    total_urls_visited <= max_urls

\* C3: the crawl of a chain site (every page links only to a new page one
\* level down) with budget max_urls ends with exactly max_urls visits.
C3_ChainVisitsBudget ==
    (site = "chain" /\ status = "done") => total_urls_visited = max_urls

\* C4: every url fetched after the seed has exactly the seed's host.
C4_FetchedHostIsSeedHost ==
    \A i \in 2..Len(fetchLog) : HostOf(fetchLog[i]) = SeedHost

\* C5: a valid resolved reference is recorded as internal if and only if its
\* host is exactly the seed's host, and as external (never internal) otherwise.
C5_ClassifiedByExactHost ==
    \A r \in refs :
        is_valid(r.target) =>
            IF HostOf(r.target) = SeedHost
            THEN r.target \in internal_urls /\ r.target \notin external_urls
            ELSE r.target \in external_urls /\ r.target \notin internal_urls

\* C6: a mailto: href whose remainder has the shape of an address adds that
\* address to the emails and nothing to the links or the frontier; a mailto:
\* href whose remainder has not adds nothing anywhere.
C6_MailtoHandled ==
    [][ (AtAnchor /\ StartsWith(NextHref, MailtoPrefix)) =>
           /\ internal_urls' = internal_urls
           /\ external_urls' = external_urls
           /\ Frontier' = Frontier
           /\ email_addresses' =
                 IF EmailMatch(Drop(NextHref, 7))
                 THEN email_addresses \cup {Drop(NextHref, 7)}
                 ELSE email_addresses ]_vars

\* the href at hand is no mailto: link, resolves without an exception, and its
\* resolved url has no scheme or no host
ResolvesWithoutHost ==
    /\ AtAnchor
    /\ NextHref # <<>> /\ NextHref # None
    /\ ~StartsWith(NextHref, MailtoPrefix)
    /\ ~HrefRaises(Top.url, NextHref)
    /\ \/ urlparse(urljoin(Top.url, NextHref)).scheme = <<>>
       \/ urlparse(urljoin(Top.url, NextHref)).netloc = <<>>

\* C7: a reference whose resolved url lacks a scheme or a host is discarded:
\* the step leaves the links, the emails and the frontier as they were.
C7_HostlessDiscarded ==
    [][ ResolvesWithoutHost => (UNCHANGED results /\ Frontier' = Frontier) ]_vars

\* C8: normalization drops query string and fragment, and a target that two
\* hrefs differing only in query string or fragment resolve to is enqueued at
\* most once and fetched at most once in the session.
C8_QueryFragmentOnce ==
    /\ \A r \in refs : Find(r.target, {"?", "#"}) = 0
    /\ \A r1, r2 \in refs :
          (/\ r1.href # r2.href
           /\ r1.target = r2.target
           /\ Find(r1.href, {"?", "#"}) # 0) =>
              /\ Count(offerLog, r1.target) <= 1
              /\ Count(fetchLog, r1.target) <= 1

\* the step is the failure of the fetch of a discovered (non-seed) url
FetchFailsNow ==
    /\ status = "running" /\ Len(stack) >= 2 /\ Top.pc = "fetch"
    /\ Top.url \notin failed /\ Top.url \in failed'

\* a discovered target is lost: neither fetched, nor being fetched, nor waiting
Lost(t) ==
    /\ t \notin Range(fetchLog)
    /\ t \notin Frontier
    /\ \A i \in 1..Len(stack) : stack[i].url # t

\* the longest page a fetch can return
MaxAnchors ==
    CHOOSE n \in 0..20 :
        /\ \A pg \in Pages \cup {PageChain} : Len(pg) <= n
        /\ \E pg \in Pages \cup {PageChain} : Len(pg) = n

\* the steps a frame can still take before it recurses or returns
FrameRank(f) ==
    CASE f.pc = "fetch"   -> MaxAnchors + 3
      [] f.pc = "anchors" -> Len(f.soup) + 2
      [] f.pc = "loop"    -> 1

RECURSIVE StackRank(_)
StackRank(frames) ==
    IF frames = <<>> THEN 0 ELSE FrameRank(Head(frames)) + StackRank(Tail(frames))

\* a number that every step of the program makes smaller: the calls the
\* counter still allows, each worth more than a frame's steps, and the steps
\* of the frames on the stack
Rank ==
    (MaxAnchors + 4) * (max_urls + 1 - total_urls_visited)
      + StackRank(stack)
      + (CASE status = "idle" -> 2 [] status = "running" -> 1 [] OTHER -> 0)

\* some step of the program is possible (the loop over the anchors always has
\* a step for the next anchor)
CanStep ==
    \/ AtAnchor
    \/ ENABLED (Main \/ FetchRaise \/ FetchResponse \/ ReturnLinks
                  \/ Recurse \/ Break \/ Return \/ Finish)

C10_ErrorBodyNotExtracted ==
    [][ (AtAnchor /\ Top.response \in {"http_error", "non_html"}) =>
           (UNCHANGED results /\ Frontier' = Frontier) ]_vars

\* C11: no failure tied to one page or one href propagates out of the crawl:
\* every step of a running crawl leaves it running or completes it, and a step
\* of the loop over the anchors goes on to the anchors that remain.
C11_NoFailurePropagates ==
    [][ /\ status = "running" => status' \in {"running", "done"}
        /\ AtAnchor => (/\ Len(stack') = Len(stack)
                        /\ stack'[Len(stack)].soup = Tail(Top.soup)) ]_vars

\* the first fetch of the session, that of a seed with scheme and host, raised
SeedFetchFailed ==
    is_valid(seed) /\ fetchLog = <<seed>> /\ seed \in failed

\* C12: when the fetch of the seed itself fails the run does not end as a
\* successful crawl: main does not reach the summary and the result files, and
\* the process exits with code 1.
C12_SeedFetchFailureFatal ==
    SeedFetchFailed => (status # "done" /\ (Exited => exit_code = 1))

\* C13: a seed without scheme or without host is rejected at startup: nothing
\* is visited, nothing fetched, no crawl runs or completes, and the process
\* exits with code 2.
C13_InvalidSeedRejected ==
    ~is_valid(seed) =>
        /\ total_urls_visited = 0
        /\ fetchLog = <<>>
        /\ status \notin {"running", "done"}
        /\ Exited => exit_code = 2

\* the targets whose fetch was attempted
Visited ==
    Range(fetchLog)

\* C14: in every reachable state the visited targets and the targets waiting
\* in the frontier are disjoint.
C14_VisitedFrontierDisjoint ==
    Visited \cap Frontier = {}

\* the frames of the crawl() calls that counted their visit and have not yet
\* attempted their fetch
AwaitingFetch ==
    {i \in 1..Len(stack) : stack[i].pc = "fetch"}

\* C15: each dequeue-and-attempt of a target adds exactly 1 to the counter,
\* whether its fetch succeeds or fails, and no other step changes the counter:
\* a step adds 1 when it enters crawl() for a target and 0 otherwise, and the
\* counter equals the number of fetch attempts made plus the calls about to
\* make theirs.
C15_CountsEachAttempt ==
    /\ [][ total_urls_visited' =
              total_urls_visited + (IF Len(stack') = Len(stack) + 1 THEN 1 ELSE 0) ]_vars
    /\ [](total_urls_visited = Len(fetchLog) + Cardinality(AwaitingFetch))

\* a completed crawl that attempted three fetches, one that failed and one that
\* succeeded among them
C15_Witness ==
    /\ status = "done"
    /\ total_urls_visited = 3
    /\ \E i, j \in 1..Len(fetchLog) : fetchLog[i] \in failed /\ fetchLog[j] \notin failed

\* the href at hand is offered to the frontier: it resolves to a valid url
\* that the code does not take for external (lines 79-87)
OffersTarget ==
    /\ AtAnchor
    /\ Classify(Top.url, Top.domain_name, NextHref) \in {"known", "internal"}

\* the number of entries a target has in the frontier
Entries(frames, t) ==
    Cardinality({i \in 1..Len(frames) : t \in frames[i].urls})

\* the offer of t enqueues it exactly when it is neither visited nor waiting,
\* and a waiting target has one entry
OfferedOnce(t) ==
    /\ (t \notin Frontier /\ t \in Frontier') <=> (t \notin Visited /\ t \notin Frontier)
    /\ t \in Frontier => Frontier' = Frontier
    /\ t \in Frontier' => Entries(stack', t) = 1

\* C16: offering a target enqueues it if and only if it is neither visited nor
\* already in the frontier, and a target offered twice before it is visited
\* has exactly one entry in the frontier.
C16_IdempotentEnqueue ==
    [][ OffersTarget => OfferedOnce(Normalize(Top.url, NextHref)) ]_vars

\* the entries the end-to-end scenario expects in the results
ExpectedInternal ==
    <<"h","t","t","p","s",":","/","/","e","x","a","m","p","l","e",".","c","o","m","/","a","b","o","u","t">>

ExpectedExternal ==
    <<"h","t","t","p","s",":","/","/","e","x","t","e","r","n","a","l",".","c","o","m">>

ExpectedEmail ==
    <<"t","e","s","t","@","e","x","a","m","p","l","e",".","c","o","m">>

\* C17: the finished crawl of the seed https://example.com, whose page links
\* to /about, https://external.com and mailto:test@example.com, with budget 5
\* has https://example.com/about among the internal links,
\* https://external.com among the external links, test@example.com among the
\* emails, and has visited at most 5 targets.
C17_EndToEnd ==
    (/\ site = "example" /\ seed = SeedExample /\ max_urls = ScenarioBudget
     /\ status = "done") =>
        /\ ExpectedInternal \in internal_urls
        /\ ExpectedExternal \in external_urls
        /\ ExpectedEmail \in email_addresses
        /\ total_urls_visited <= max_urls

\* the scenario's crawl completed after it fetched the seed and /about
C17_Witness ==
    /\ site = "example" /\ seed = SeedExample /\ max_urls = ScenarioBudget
    /\ status = "done"
    /\ fetchLog = <<SeedExample, ExpectedInternal>>

\* a crawl session has just started: crawl(seed) was entered from outside and
\* has counted the seed, and nothing has been fetched for it yet
SessionStarted ==
    status = "running" /\ Len(stack) = 1 /\ Top.pc = "fetch"

\* C18: every crawl session starts from a state of its own: at its start the
\* internal, external and email sets are empty and the seed is the only visit
\* counted, whatever an earlier session in the same process recorded.
C18_SessionOwnsState ==
    SessionStarted =>
        /\ internal_urls = {}
        /\ external_urls = {}
        /\ email_addresses = {}
        /\ total_urls_visited = 1

\* the frontier was exhausted: every target offered to it was taken and its
\* fetch attempted
Exhausted ==
    Range(offerLog) \subseteq Visited

\* the visits counted have reached the budget
BudgetReached ==
    total_urls_visited >= max_urls

\* C19: every crawl session comes to the terminal state Done, through
\* Exhausted or BudgetReached, and stays there: no run ends in another way,
\* a run that is not done can always take a step, every step brings the end
\* nearer, Done is entered only with the frontier exhausted or the budget
\* reached, and no step leaves Done.
C19_ReachesDone ==
    /\ [](status # "crashed")
    /\ [](Rank >= 0 /\ (status = "done" \/ CanStep))
    /\ [][ Rank' < Rank ]_vars
    /\ [](status = "done" => (Exhausted \/ BudgetReached))
    /\ [][ status = "done" => status' = "done" ]_vars

\* C22: when a crawl ends with the budget never exceeded, so that no loop was
\* left by break, every internal url recorded has been fetched: the internal
\* links are a subset of the visited targets.
C22_ExhaustedMeansAllFetched ==
    (status = "done" /\ total_urls_visited <= max_urls) =>
        internal_urls \subseteq Visited

\* a crawl on the open site that recorded an internal link ended within its
\* budget
C22_Witness ==
    /\ status = "done"
    /\ site = "open"
    /\ total_urls_visited <= max_urls
    /\ internal_urls # {}

\* C23: once the visits counted have reached the budget the offer of an
\* internal target is a no-op: it raises nothing and leaves the frontier as it
\* was.
C23_OfferAfterBudgetNoOp ==
    [][ (OffersTarget /\ BudgetReached) =>
           (status' = "running" /\ Frontier' = Frontier) ]_vars

\* C24: in every reachable state no url is recorded both as an internal and
\* as an external link.
C24_InternalExternalDisjoint ==
    internal_urls \cap external_urls = {}

\* the external links of the crawl of the "drift" site that takes the links of
\* the seed page in document order
DriftExternal ==
    {HrefOther}

\* C27: for a crawl that never reaches its budget on a site whose pages are
\* fixed, the final sets do not depend on the order in which the links of a
\* page are crawled: every completed crawl of the "drift" site has the
\* external links of the crawl in document order.
C27_OrderIndependent ==
    (site = "drift" /\ status = "done" /\ total_urls_visited <= max_urls) =>
        external_urls = DriftExternal

\* the crawl in document order: it completed within the budget, /a was
\* fetched right after the seed, and the external links are DriftExternal
C27_DocumentOrder ==
    /\ site = "drift" /\ status = "done" /\ total_urls_visited <= max_urls
    /\ fetchLog[2] = SeedUrl \o <<"a">>
    /\ external_urls = DriftExternal

\* the distinct urls whose crawl() call has counted its visit: those whose
\* fetch was attempted and those about to be fetched
Crawled ==
    Visited \cup {stack[i].url : i \in AwaitingFetch}

\* C25: in every reachable state the counter equals the number of distinct
\* urls crawled, so that the 'Total crawled URLs' of the summary is the number
\* of distinct pages.
C25_CountIsDistinctVisited ==
    total_urls_visited = Cardinality(Crawled)

\* C26: every url fetched after the seed was in the internal links when its
\* fetch started, so that the visited targets other than the first are
\* internal links: each crawl() call below the seed's is for a recorded
\* internal link, and so is every fetch attempt after the first.
C26_FetchedWasInternal ==
    /\ \A i \in 2..Len(stack) : stack[i].url \in internal_urls
    /\ \A i \in 2..Len(fetchLog) : fetchLog[i] \in internal_urls

\* a completed crawl fetched an internal link and left another one unfetched
C26_Witness ==
    /\ status = "done"
    /\ Len(fetchLog) >= 2
    /\ internal_urls \ Visited # {}

\* the step attempts the fetch of the crawl() call at hand and gets no
\* response: requests.get or the parse raised
FetchFails ==
    /\ status = "running" /\ stack # <<>> /\ Top.pc = "fetch"
    /\ Len(fetchLog') = Len(fetchLog) + 1
    /\ Len(stack') = Len(stack) => stack'[Len(stack)].response = "none"

\* C28: a crawl step whose fetch fails changes nothing but the counter: the
\* visit was counted when crawl() was entered, and the failing fetch leaves
\* the counter, the internal, external and email sets and the frontier as they
\* were and yields the empty set of links to the same crawl() call.
C28_FailedFetchFrame ==
    [][ FetchFails =>
           /\ total_urls_visited = Len(fetchLog')
           /\ total_urls_visited' = total_urls_visited
           /\ UNCHANGED results
           /\ Frontier' = Frontier
           /\ Len(stack') = Len(stack)
           /\ stack'[Len(stack)].urls = {}
           /\ stack'[Len(stack)].pc = "loop" ]_vars

\* the fetch of a discovered url has just failed while results were recorded
\* and targets were waiting
C28_Witness ==
    /\ status = "running" /\ Len(stack) >= 2
    /\ Top.pc = "loop" /\ Top.response = "none"
    /\ Top.url \in failed
    /\ internal_urls # {} /\ external_urls # {} /\ email_addresses # {}
    /\ Frontier # {}

\* C29: the nesting depth of the crawl() calls never exceeds max_urls + 1:
\* every call on the stack has counted its visit, and a call is made only
\* while the counter does not exceed max_urls.
C29_DepthBounded ==
    /\ Len(stack) <= total_urls_visited
    /\ Len(stack) <= max_urls + 1

\* the crawl() calls are nested max_urls + 1 deep, for a budget of at least 2
C29_Witness ==
    max_urls >= 2 /\ Len(stack) = max_urls + 1

====
